---------------------------- MODULE Spec2Model ----------------------------
(***************************************************************************)
(* Gravitational n-body simulator (src/src/app.js): the nBodyProblem       *)
(* integrator, the Manifestation motion trails, the reset-button click     *)
(* handler and the animate frame callback.                                 *)
(*                                                                         *)
(* JavaScript numbers are IEEE-754 floating point.  They are modelled as   *)
(* floating-point numbers of radix 10 with Prec significant digits,        *)
(* rounded to nearest (ties to even) after every single operation, with    *)
(* the special values Infinity, -Infinity and NaN and the JavaScript       *)
(* values undefined and null.  The exponent is not limited: the inputs     *)
(* drawn below are far from binary64's overflow and underflow thresholds.  *)
(* The sign of zero is not kept: no operation of the program divides by a  *)
(* negative zero (every divisor is a sum of squares times a square root).  *)
(***************************************************************************)
EXTENDS Integers, Sequences, FiniteSets, TLC

\* Significant decimal digits kept by every arithmetic operation.
Prec == 3

\* Frames animated after construction or after a reset before the model stops
\* the frame loop (the program itself runs forever).
MaxFrames == 37

(***************************************************************************)
(* Numbers                                                                 *)
(***************************************************************************)
RECURSIVE Pow10(_)
Pow10(k) == IF k <= 0 THEN 1 ELSE 10 * Pow10(k - 1)

RECURSIVE Digits(_)
Digits(n) == IF n < 10 THEN 1 ELSE 1 + Digits(n \div 10)

Abs(n) == IF n < 0 THEN -n ELSE n

Sgn(n) == IF n < 0 THEN -1 ELSE IF n > 0 THEN 1 ELSE 0

\* A finite number m * 10^e, Infinity (m = 1), -Infinity (m = -1), NaN,
\* undefined (a property that does not exist) and null.
Fin(m, e) == [k |-> "num", m |-> m, e |-> e]
Zero      == [k |-> "num", m |-> 0, e |-> 0]
Inf(s)    == [k |-> "inf", m |-> s, e |-> 0]
NaN       == [k |-> "nan", m |-> 0, e |-> 0]
Undefined == [k |-> "undefined", m |-> 0, e |-> 0]
Null      == [k |-> "null", m |-> 0, e |-> 0]

\* The exact value m * 10^e rounded to Prec digits, ties to even.
Norm(m, e) ==
    LET n == Abs(m)
        d == Digits(n)
    IN  IF m = 0 THEN Zero
        ELSE IF d <= Prec THEN Fin(Sgn(m) * n * Pow10(Prec - d), e - (Prec - d))
        ELSE LET k    == d - Prec
                 q    == n \div Pow10(k)
                 r    == n % Pow10(k)
                 half == 5 * Pow10(k - 1)
                 q2   == IF r > half \/ (r = half /\ q % 2 = 1) THEN q + 1 ELSE q
             IN  IF q2 = Pow10(Prec)
                 THEN Fin(Sgn(m) * Pow10(Prec - 1), e + k + 1)
                 ELSE Fin(Sgn(m) * q2, e + k)

\* ToNumber: undefined converts to NaN, null to 0.
ToNumber(a) ==
    CASE a.k = "undefined" -> NaN
      [] a.k = "null"      -> Zero
      [] OTHER             -> a

IsFinite(a) == a.k = "num"

AddFin(a, b) ==
    IF a.m = 0 THEN b
    ELSE IF b.m = 0 THEN a
    ELSE LET hi == IF a.e >= b.e THEN a ELSE b
             lo == IF a.e >= b.e THEN b ELSE a
             d  == hi.e - lo.e
         IN  IF d > Prec + 1 THEN hi
             ELSE Norm(hi.m * Pow10(d) + lo.m, lo.e)

\* x + y
Add(x, y) ==
    LET a == ToNumber(x)
        b == ToNumber(y)
    IN  CASE a.k = "nan" \/ b.k = "nan"    -> NaN
          [] a.k = "inf" /\ b.k = "inf"    -> IF a.m = b.m THEN a ELSE NaN
          [] a.k = "inf"                   -> a
          [] b.k = "inf"                   -> b
          [] OTHER                         -> AddFin(a, b)

\* -x
Neg(x) ==
    LET a == ToNumber(x)
    IN  IF a.k = "nan" THEN NaN ELSE [a EXCEPT !.m = -a.m]

\* x - y
Sub(x, y) == Add(x, Neg(y))

\* x * y
Mul(x, y) ==
    LET a == ToNumber(x)
        b == ToNumber(y)
    IN  CASE a.k = "nan" \/ b.k = "nan"    -> NaN
          [] a.k = "inf" \/ b.k = "inf"    ->
                IF a.m = 0 \/ b.m = 0 THEN NaN ELSE Inf(Sgn(a.m) * Sgn(b.m))
          [] OTHER                         -> Norm(a.m * b.m, a.e + b.e)

DivFin(a, b) ==
    LET n == Abs(a.m) * Pow10(Prec + 1)
        q == n \div Abs(b.m)
        r == n % Abs(b.m)
    IN  Norm(Sgn(a.m) * Sgn(b.m) * (q * 10 + (IF r = 0 THEN 0 ELSE 1)),
             a.e - b.e - (Prec + 2))

\* x / y: a division by zero raises nothing, it yields an infinity or NaN.
Div(x, y) ==
    LET a == ToNumber(x)
        b == ToNumber(y)
    IN  CASE a.k = "nan" \/ b.k = "nan"    -> NaN
          [] a.k = "inf" /\ b.k = "inf"    -> NaN
          [] a.k = "inf"                   -> Inf(a.m * (IF b.m < 0 THEN -1 ELSE 1))
          [] b.k = "inf"                   -> Zero
          [] b.m = 0                       -> IF a.m = 0 THEN NaN ELSE Inf(Sgn(a.m))
          [] a.m = 0                       -> Zero
          [] OTHER                         -> DivFin(a, b)

\* The largest r in lo..hi with r * r <= n.
RECURSIVE ISqrt(_, _, _)
ISqrt(n, lo, hi) ==
    IF lo >= hi THEN lo
    ELSE LET mid == (lo + hi + 1) \div 2
         IN  IF mid * mid <= n THEN ISqrt(n, mid, hi) ELSE ISqrt(n, lo, mid - 1)

SqrtFin(a) ==
    LET k == IF (a.e - Prec) % 2 = 0 THEN Prec ELSE Prec + 1
        n == a.m * Pow10(k)
        e == (a.e - k) \div 2
        r == ISqrt(n, 0, 40000)
    IN  IF Digits(r) <= Prec
        THEN Norm(IF n - r * r > r THEN r + 1 ELSE r, e)
        ELSE Norm(r * 10 + (IF r * r = n THEN 0 ELSE 1), e - 1)

\* Math.sqrt(x)
Sqrt(x) ==
    LET a == ToNumber(x)
    IN  CASE a.k = "nan"                   -> NaN
          [] a.m < 0                       -> NaN
          [] a.k = "inf"                   -> a
          [] a.m = 0                       -> Zero
          [] OTHER                         -> SqrtFin(a)

\* x === y on numbers: NaN equals nothing, itself included.
NumEq(x, y) == x.k # "nan" /\ y.k # "nan" /\ x = y


\* A numeric literal of the source, m * 10^e, to the model's precision.
Num(m, e) == Norm(m, e)

(***************************************************************************)
(* Objects.  A body is an object on the heap; an array of bodies is the    *)
(* sequence of its elements' addresses.                                    *)
(***************************************************************************)
\* Animation constants.
scale == 70
radius == 4
trailLength == 35

\* The browser window the canvas fills.
window == [innerWidth |-> 800, innerHeight |-> 600]

NoManifestation ==
    [k |-> "undefined", trailLength |-> 0, radius |-> 0, positions |-> << >>]

\* An element of the masses literal: it has neither ax, ay, az nor a
\* manifestation.
MassLiteral(b) ==
    [name |-> b.name, m |-> b.m, x |-> b.x, y |-> b.y, z |-> b.z,
     vx |-> b.vx, vy |-> b.vy, vz |-> b.vz,
     ax |-> Undefined, ay |-> Undefined, az |-> Undefined,
     manifestation |-> NoManifestation]

\* new Manifestation(ctx, trailLength, radius)
NewManifestation(len, rad) ==
    [k |-> "Manifestation", trailLength |-> len, radius |-> rad,
     positions |-> << >>]

\* What JSON.stringify followed by JSON.parse makes of a number: a finite
\* number is kept, NaN and the infinities become null, and a property that is
\* undefined is left out.
JSONNumber(a) == IF a.k \in {"nan", "inf"} THEN Null ELSE a

JSONBody(b) ==
    [name |-> b.name, m |-> JSONNumber(b.m),
     x |-> JSONNumber(b.x), y |-> JSONNumber(b.y), z |-> JSONNumber(b.z),
     vx |-> JSONNumber(b.vx), vy |-> JSONNumber(b.vy), vz |-> JSONNumber(b.vz),
     ax |-> JSONNumber(b.ax), ay |-> JSONNumber(b.ay), az |-> JSONNumber(b.az),
     manifestation |-> b.manifestation]

\* The lowest address not in use.
NewAddress(hp) ==
    CHOOSE a \in 1..(Cardinality(DOMAIN hp) + 1) :
        a \notin DOMAIN hp /\ \A b \in 1..(a - 1) : b \in DOMAIN hp

RECURSIVE CloneFrom(_, _, _, _)
CloneFrom(hp, refs, i, out) ==
    IF i > Len(refs) THEN [heap |-> hp, refs |-> out]
    ELSE LET a == NewAddress(hp)
         IN  CloneFrom(hp @@ (a :> JSONBody(hp[refs[i]])), refs, i + 1,
                       Append(out, a))

\* A copy that keeps the order but leaves the last element out.
JSONCloneShort(hp, refs) ==
    CloneFrom(hp, SubSeq(refs, 1, Len(refs) - 1), 1, << >>)

\* No copy: the same array and the same objects.
JSONCloneAlias(hp, refs) == [heap |-> hp, refs |-> refs]

\* JSON.parse(JSON.stringify(refs)): a new array of new objects.
JSONClone(hp, refs) == CloneFrom(hp, refs, 1, << >>)

RECURSIVE PopulateFrom(_, _, _)
PopulateFrom(hp, refs, i) ==
    IF i > Len(refs) THEN hp
    ELSE PopulateFrom(
             [hp EXCEPT ![refs[i]].manifestation =
                            NewManifestation(trailLength, radius)],
             refs, i + 1)

\* populateManifestations(masses)
populateManifestations(hp, refs) == PopulateFrom(hp, refs, 1)

\* Objects no reference reaches any more are gone.
Collect(hp, roots) == [a \in (DOMAIN hp) \cap roots |-> hp[a]]

Range(s) == {s[i] : i \in DOMAIN s}

(***************************************************************************)
(* class nBodyProblem.  Each method is a function of the heap and of the   *)
(* instance sys = [g, dt, softeningConstant, masses]; its loops run in the  *)
(* order of the source.                                                    *)
(***************************************************************************)
RECURSIVE PositionLoop(_, _, _)
PositionLoop(hp, sys, i) ==
    IF i > Len(sys.masses) THEN hp
    ELSE LET a     == sys.masses[i]
             massI == hp[a]
         IN  PositionLoop(
                 [hp EXCEPT ![a].x = Add(massI.x, Mul(massI.vx, sys.dt)),
                            ![a].y = Add(massI.y, Mul(massI.vy, sys.dt)),
                            ![a].z = Add(massI.z, Mul(massI.vz, sys.dt))],
                 sys, i + 1)

updatePositionVectors(hp, sys) == PositionLoop(hp, sys, 1)

RECURSIVE VelocityLoop(_, _, _)
VelocityLoop(hp, sys, i) ==
    IF i > Len(sys.masses) THEN hp
    ELSE LET a     == sys.masses[i]
             massI == hp[a]
         IN  VelocityLoop(
                 [hp EXCEPT ![a].vx = Add(massI.vx, Mul(massI.ax, sys.dt)),
                            ![a].vy = Add(massI.vy, Mul(massI.ay, sys.dt)),
                            ![a].vz = Add(massI.vz, Mul(massI.az, sys.dt))],
                 sys, i + 1)

updateVelocityVectors(hp, sys) == VelocityLoop(hp, sys, 1)

\* The sums start from what the body already holds.
AccumulatorsKept(massI) == [ax |-> massI.ax, ay |-> massI.ay, az |-> massI.az]

\* let ax = 0; let ay = 0; let az = 0;
Accumulators(massI) == [ax |-> Zero, ay |-> Zero, az |-> Zero]

\* Every pair interacts, a body with itself too.
InteractsAlways(i, j) == TRUE

\* if (i !== j)
Interacts(i, j) == i # j

\* The separation taken from massJ to massI.
SeparationReversed(massI, massJ) ==
    [dx |-> Sub(massI.x, massJ.x),
     dy |-> Sub(massI.y, massJ.y),
     dz |-> Sub(massI.z, massJ.z)]

\* dx, dy, dz
Separation(massI, massJ) ==
    [dx |-> Sub(massJ.x, massI.x),
     dy |-> Sub(massJ.y, massI.y),
     dz |-> Sub(massJ.z, massI.z)]

\* distSq
DistSq(d) == Add(Add(Mul(d.dx, d.dx), Mul(d.dy, d.dy)), Mul(d.dz, d.dz))

\* The factor taken with the attracted body's own mass.
ForceOwnMass(sys, massI, massJ, distSq) ==
    Div(Mul(sys.g, massI.m),
        Mul(distSq, Sqrt(Add(distSq, sys.softeningConstant))))

\* f
Force(sys, massI, massJ, distSq) ==
    Div(Mul(sys.g, massJ.m),
        Mul(distSq, Sqrt(Add(distSq, sys.softeningConstant))))

RECURSIVE InnerLoop(_, _, _, _, _)
InnerLoop(hp, sys, i, j, acc) ==
    IF j > Len(sys.masses) THEN acc
    ELSE IF Interacts(i, j)
         THEN LET massI  == hp[sys.masses[i]]
                  massJ  == hp[sys.masses[j]]
                  d      == Separation(massI, massJ)
                  distSq == DistSq(d)
                  f      == Force(sys, massI, massJ, distSq)
              IN  InnerLoop(hp, sys, i, j + 1,
                            [ax |-> Add(acc.ax, Mul(d.dx, f)),
                             ay |-> Add(acc.ay, Mul(d.dy, f)),
                             az |-> Add(acc.az, Mul(d.dz, f))])
         ELSE InnerLoop(hp, sys, i, j + 1, acc)

RECURSIVE AccelerationLoop(_, _, _)
AccelerationLoop(hp, sys, i) ==
    IF i > Len(sys.masses) THEN hp
    ELSE LET a   == sys.masses[i]
             acc == InnerLoop(hp, sys, i, 1, Accumulators(hp[a]))
         IN  AccelerationLoop(
                 [hp EXCEPT ![a].ax = acc.ax, ![a].ay = acc.ay, ![a].az = acc.az],
                 sys, i + 1)

updateAccelerationVectors(hp, sys) == AccelerationLoop(hp, sys, 1)

(***************************************************************************)
(* class Manifestation                                                     *)
(***************************************************************************)
\* The oldest position goes as soon as the trail holds trailLength of them.
storePositionEarly(man, x, y) ==
    LET pushed == Append(man.positions, [x |-> x, y |-> y])
    IN  [man EXCEPT !.positions =
             IF Len(pushed) >= man.trailLength THEN Tail(pushed) ELSE pushed]

\* storePosition(x, y): push, then shift once the trail is over trailLength.
storePosition(man, x, y) ==
    LET pushed == Append(man.positions, [x |-> x, y |-> y])
    IN  [man EXCEPT !.positions =
             IF Len(pushed) > man.trailLength THEN Tail(pushed) ELSE pushed]

\* Where animate draws massI on the canvas.
CanvasPoint(massI) ==
    [x |-> Add(Div(Num(window.innerWidth, 0), Num(2, 0)),
               Mul(massI.x, Num(scale, 0))),
     y |-> Add(Div(Num(window.innerHeight, 0), Num(2, 0)),
               Mul(massI.y, Num(scale, 0)))]

\* The loop of animate over the masses: each one's manifestation draws, which
\* stores the position first.
RECURSIVE DrawLoop(_, _, _)
DrawLoop(hp, refs, i) ==
    IF i > Len(refs) THEN hp
    ELSE LET a == refs[i]
             p == CanvasPoint(hp[a])
         IN  DrawLoop(
                 [hp EXCEPT ![a].manifestation =
                                storePosition(hp[a].manifestation, p.x, p.y)],
                 refs, i + 1)

(***************************************************************************)
(* Inputs: the parameters and the masses literal the program is built      *)
(* from.                                                                   *)
(***************************************************************************)
Mass(name, m, x, y, z, vx, vy, vz) ==
    [name |-> name, m |-> m, x |-> x, y |-> y, z |-> z,
     vx |-> vx, vy |-> vy, vz |-> vz]

Params(g, dt, softeningConstant, ms) ==
    [g |-> g, dt |-> dt, softeningConstant |-> softeningConstant, masses |-> ms]

\* The inner solar system of the source, its literals to four digits.
SolarSystem ==
    Params(Num(395, -1), Num(8, -3), Num(15, -2),
      << Mass("Sun", Num(1, 0),
              Num(-1503, -9), Num(-3938, -9), Num(-4866, -11),
              Num(3167, -8), Num(-6855, -9), Num(-7901, -10)),
         Mass("Mercury", Num(1660, -10),
              Num(-3464, -4), Num(-2725, -4), Num(9516, -6),
              Num(4251, -3), Num(-7618, -3), Num(-1012, -3)),
         Mass("Venus", Num(2447, -9),
              Num(-1680, -4), Num(6988, -4), Num(1928, -5),
              Num(-7208, -3), Num(-1768, -3), Num(3917, -4)),
         Mass("Earth", Num(3002, -9),
              Num(6488, -4), Num(7478, -4), Num(-3230, -8),
              Num(-4851, -3), Num(4096, -3), Num(-2586, -7)),
         Mass("Mars", Num(3213, -10),
              Num(-5749, -4), Num(-1395, -3), Num(-1515, -5),
              Num(4923, -3), Num(-1507, -3), Num(-1524, -4)) >>)

\* Two bodies at rest, one unit apart along x, without softening.
TwoBodyScenario ==
    Params(Num(395, -1), Num(8, -3), Zero,
      << Mass("body1", Num(1, 0), Zero, Zero, Zero, Zero, Zero, Zero),
         Mass("body2", Num(1, -6), Num(1, 0), Zero, Zero, Zero, Zero, Zero) >>)

Softenings == {Zero, Num(15, -2)}

\* A position with a velocity.
Placements ==
    { [x |-> Zero, y |-> Zero, z |-> Zero, vx |-> Zero, vy |-> Zero, vz |-> Zero],
      [x |-> Num(1, 0), y |-> Num(-2, 0), z |-> Num(5, -1),
       vx |-> Num(3, -1), vy |-> Zero, vz |-> Num(-15, -1)] }

Placed(name, m, p) == Mass(name, m, p.x, p.y, p.z, p.vx, p.vy, p.vz)

\* Systems of one body.
OneBodySystems ==
    { Params(g, Num(8, -3), s, << Placed("alone", m, p) >>) :
        g \in {Num(395, -1), Num(1, 0)}, s \in Softenings,
        m \in {Num(1, 0), Num(3, -6)}, p \in Placements }

\* Where two bodies are put: apart along x, apart in all three directions and
\* moving, and both at the same place with the same velocity.
PairPlacements ==
    { << [x |-> Zero, y |-> Zero, z |-> Zero, vx |-> Zero, vy |-> Zero, vz |-> Zero],
         [x |-> Num(3, 0), y |-> Zero, z |-> Zero, vx |-> Zero, vy |-> Zero, vz |-> Zero] >>,
      << [x |-> Num(5, -1), y |-> Num(-2, -1), z |-> Zero,
          vx |-> Zero, vy |-> Num(1, 0), vz |-> Zero],
         [x |-> Num(3, -1), y |-> Num(7, -1), z |-> Num(1, -1),
          vx |-> Num(-2, 0), vy |-> Zero, vz |-> Num(5, -1)] >>,
      << [x |-> Num(1, 0), y |-> Num(1, 0), z |-> Num(1, 0),
          vx |-> Num(2, 0), vy |-> Zero, vz |-> Zero],
         [x |-> Num(1, 0), y |-> Num(1, 0), z |-> Num(1, 0),
          vx |-> Num(2, 0), vy |-> Zero, vz |-> Zero] >> }

PairMasses ==
    { << Num(1, 0), Num(1, -6) >>, << Num(1, -1), Num(2447, -9) >>,
      << Num(3, 0), Num(7, 0) >> }

\* Systems of two bodies.
TwoBodySystems ==
    { Params(Num(395, -1), Num(8, -3), s,
             << Placed("first", ms[1], ps[1]), Placed("second", ms[2], ps[2]) >>) :
        s \in Softenings, ms \in PairMasses, ps \in PairPlacements }

Inputs == {SolarSystem, TwoBodyScenario} \cup OneBodySystems \cup TwoBodySystems

(***************************************************************************)
(* The program                                                             *)
(***************************************************************************)
VARIABLES
    input,             \* the parameters and the masses literal of the source text
    heap,              \* address -> body object
    masses,            \* the array the masses literal evaluates to
    innerSolarSystem,  \* the nBodyProblem instance; its masses is an array
    pc,                \* 0: no handler runs, a frame is requested;
                       \* 1..3: animate is about to call animateChain[pc];
                       \* 4: animate is about to clear the canvas and draw
    pre,               \* history: the array and the bodies when the frame began
    drawn              \* history: the points drawn since construction or reset

vars == <<input, heap, masses, innerSolarSystem, pc, pre, drawn>>

Snapshot(hp, refs) ==
    [masses |-> refs, bodies |-> [i \in 1..Len(refs) |-> hp[refs[i]]]]

\* The bodies the integrator works on, in the order of its array.
Live == [i \in 1..Len(innerSolarSystem.masses) |-> heap[innerSolarSystem.masses[i]]]

Init ==
    \E c \in Inputs :
        LET n     == Len(c.masses)
            lit   == [a \in 1..n |-> MassLiteral(c.masses[a])]
            refs  == [i \in 1..n |-> i]
            clone == JSONClone(lit, refs)
            hp    == populateManifestations(clone.heap, clone.refs)
        IN  /\ input = c
            /\ masses = refs
            /\ innerSolarSystem =
                   [g |-> c.g, dt |-> c.dt,
                    softeningConstant |-> c.softeningConstant,
                    masses |-> clone.refs]
            /\ heap = hp
            /\ pc = 1
            /\ pre = Snapshot(hp, clone.refs)
            /\ drawn = << >>

\* The methods in the order animate chains them, velocities before
\* accelerations.
animateChainEuler ==
    << "updatePositionVectors", "updateVelocityVectors",
       "updateAccelerationVectors" >>

\* The chain of calls animate begins with.
animateChain ==
    << "updatePositionVectors", "updateAccelerationVectors",
       "updateVelocityVectors" >>

Calling(method) == pc \in 1..3 /\ animateChain[pc] = method

CallUpdatePositionVectors ==
    /\ Calling("updatePositionVectors")
    /\ heap' = updatePositionVectors(heap, innerSolarSystem)
    /\ pc' = pc + 1
    /\ UNCHANGED <<input, masses, innerSolarSystem, pre, drawn>>

CallUpdateAccelerationVectors ==
    /\ Calling("updateAccelerationVectors")
    /\ heap' = updateAccelerationVectors(heap, innerSolarSystem)
    /\ pc' = pc + 1
    /\ UNCHANGED <<input, masses, innerSolarSystem, pre, drawn>>

CallUpdateVelocityVectors ==
    /\ Calling("updateVelocityVectors")
    /\ heap' = updateVelocityVectors(heap, innerSolarSystem)
    /\ pc' = pc + 1
    /\ UNCHANGED <<input, masses, innerSolarSystem, pre, drawn>>

\* The rest of animate: every mass is drawn and the next frame is requested.
DrawFrame ==
    /\ pc = 4
    /\ heap' = DrawLoop(heap, innerSolarSystem.masses, 1)
    /\ drawn' = Append(drawn, [i \in 1..Len(Live) |-> CanvasPoint(Live[i])])
    /\ pc' = 0
    /\ UNCHANGED <<input, masses, innerSolarSystem, pre>>

\* The requested frame comes and animate starts.
AnimationFrame ==
    /\ pc = 0
    /\ Len(drawn) < MaxFrames
    /\ pc' = 1
    /\ pre' = Snapshot(heap, innerSolarSystem.masses)
    /\ UNCHANGED <<input, heap, masses, innerSolarSystem, drawn>>

\* A click is handled whatever animate is doing.
ClickDispatchableAlways == TRUE

\* An event handler runs only when no other handler or script is running.
ClickDispatchable == pc = 0

\* The click handler of the reset button.
ResetClick ==
    /\ ClickDispatchable
    /\ LET clone == JSONClone(heap, masses)
           hp    == populateManifestations(clone.heap, clone.refs)
       IN  /\ innerSolarSystem' = [innerSolarSystem EXCEPT !.masses = clone.refs]
           /\ heap' = Collect(hp, Range(masses) \cup Range(clone.refs))
    /\ drawn' = << >>
    /\ UNCHANGED <<input, masses, pc, pre>>

Next ==
    \/ CallUpdatePositionVectors
    \/ CallUpdateAccelerationVectors
    \/ CallUpdateVelocityVectors
    \/ DrawFrame
    \/ AnimationFrame
    \/ ResetClick

Spec == Init /\ [][Next]_vars

(***************************************************************************)
(* Properties                                                              *)
(***************************************************************************)
dt == innerSolarSystem.dt

\* animate has run its three calls of this frame and has not drawn yet.
StepDone == pc = 4

\* updateAccelerationVectors has just returned.
AccelerationsFresh == pc \in 2..4 /\ animateChain[pc - 1] = "updateAccelerationVectors"

\* A reset has happened: the first copy of the masses is no longer the one
\* in use.
WasReset == innerSolarSystem.masses[1] # Len(masses) + 1

\* The heap with every live body's acceleration set to v.
WithAccelerations(v) ==
    [a \in DOMAIN heap |->
        IF a \in Range(innerSolarSystem.masses)
        THEN [heap[a] EXCEPT !.ax = v, !.ay = v, !.az = v]
        ELSE heap[a]]

\* C1: at the end of every step each body's position is its position at the
\* start of the frame advanced by its velocity at the start of the frame, its
\* acceleration is the one these new positions give, and its velocity is its
\* velocity at the start of the frame advanced by that acceleration.
C1_StepOrder ==
    StepDone =>
        /\ Len(pre.bodies) = Len(Live)
        /\ \A i \in 1..Len(Live) :
             LET old   == pre.bodies[i]
                 now   == Live[i]
                 fresh == updateAccelerationVectors(heap, innerSolarSystem)
                              [innerSolarSystem.masses[i]]
             IN  /\ now.x = Add(old.x, Mul(old.vx, dt))
                 /\ now.y = Add(old.y, Mul(old.vy, dt))
                 /\ now.z = Add(old.z, Mul(old.vz, dt))
                 /\ now.ax = fresh.ax /\ now.ay = fresh.ay /\ now.az = fresh.az
                 /\ now.vx = Add(old.vx, Mul(now.ax, dt))
                 /\ now.vy = Add(old.vy, Mul(now.ay, dt))
                 /\ now.vz = Add(old.vz, Mul(now.az, dt))

\* A step, not the first, has ended with an acceleration that differs from
\* the one the body held when the frame began.
C1_Witness ==
    /\ StepDone /\ Len(drawn) >= 1
    /\ \E i \in 1..Len(Live) :
         /\ IsFinite(Live[i].ax) /\ IsFinite(pre.bodies[i].ax)
         /\ Live[i].ax # pre.bodies[i].ax
         /\ Live[i].vx # pre.bodies[i].vx

\* C2: with a positive softening constant, every acceleration that
\* updateAccelerationVectors leaves is finite, whatever the (finite)
\* positions, two bodies at the same place included.
C2_SofteningKeepsFinite ==
    ( /\ AccelerationsFresh
      /\ innerSolarSystem.softeningConstant.m > 0
      /\ \A i \in 1..Len(Live) :
             IsFinite(Live[i].x) /\ IsFinite(Live[i].y) /\ IsFinite(Live[i].z) )
    => \A i \in 1..Len(Live) :
           IsFinite(Live[i].ax) /\ IsFinite(Live[i].ay) /\ IsFinite(Live[i].az)

PriorAccelerations == {Undefined, Zero, Num(5, 0), Num(-25, -2), NaN, Inf(1)}

\* C3: what updateAccelerationVectors leaves does not depend on the
\* accelerations held before: called on the same positions with any other
\* prior accelerations, or called once more, it leaves the same heap.
C3_AccelerationsOverwritten ==
    AccelerationsFresh =>
        /\ updateAccelerationVectors(heap, innerSolarSystem) = heap
        /\ \A v \in PriorAccelerations :
               updateAccelerationVectors(WithAccelerations(v), innerSolarSystem) = heap

\* Accelerations were just computed, finite and not zero, over other ones.
C3_Witness ==
    /\ AccelerationsFresh /\ pc = 3 /\ Len(drawn) >= 1
    /\ \E i \in 1..Len(Live) :
         /\ IsFinite(Live[i].ax) /\ Live[i].ax # Zero
         /\ IsFinite(pre.bodies[i].ax) /\ pre.bodies[i].ax # Live[i].ax

\* C4: a body alone has acceleration (0, 0, 0) once accelerations are
\* computed, whatever its position, its mass, g and the softening constant,
\* and keeps the velocity of the input.
C4_OneBodyNoAcceleration ==
    Len(Live) = 1 =>
        /\ Live[1].ax \in {Undefined, Zero}
        /\ Live[1].ay \in {Undefined, Zero}
        /\ Live[1].az \in {Undefined, Zero}
        /\ AccelerationsFresh =>
               Live[1].ax = Zero /\ Live[1].ay = Zero /\ Live[1].az = Zero
        /\ Live[1].vx = input.masses[1].vx
        /\ Live[1].vy = input.masses[1].vy
        /\ Live[1].vz = input.masses[1].vz

\* A moving body alone, without softening, after several steps.
C4_Witness ==
    /\ Len(Live) = 1 /\ Len(drawn) >= 3 /\ AccelerationsFresh
    /\ innerSolarSystem.softeningConstant = Zero
    /\ Live[1].ax = Zero
    /\ Live[1].vx # Zero
    /\ Live[1].z # input.masses[1].z

\* The objects of the masses literal are what the source text says.
OriginalKept ==
    /\ Len(masses) = Len(input.masses)
    /\ \A i \in 1..Len(masses) : heap[masses[i]] = MassLiteral(input.masses[i])

\* The live bodies are those of the input, with no acceleration and an empty
\* trail.
FreshCopy ==
    /\ Len(Live) = Len(input.masses)
    /\ \A i \in 1..Len(Live) :
         /\ Live[i] = [MassLiteral(input.masses[i]) EXCEPT
                          !.manifestation = NewManifestation(trailLength, radius)]
         /\ innerSolarSystem.masses[i] \notin Range(masses)

\* C5: the objects of the masses literal are never changed, and a reset
\* leaves the integrator with a fresh copy of them: every mass, position and
\* velocity is the input's, and no acceleration is held.
C5_ResetRestores ==
    /\ []OriginalKept
    /\ [][innerSolarSystem.masses' # innerSolarSystem.masses => FreshCopy']_vars

\* Right after a reset that followed a frame in which the bodies moved.
C5_Witness ==
    /\ pc = 0 /\ drawn = << >> /\ FreshCopy
    /\ \E i \in 1..Len(Live) :
         /\ IsFinite(pre.bodies[i].ax) /\ pre.bodies[i].ax # Zero
         /\ pre.bodies[i].manifestation.positions # << >>

\* C6: while animate runs, the array of the integrator is the one the frame
\* began with, and every live body has its manifestation.
C6_ResetBetweenSteps ==
    /\ pc \in 1..4 => innerSolarSystem.masses = pre.masses
    /\ \A i \in 1..Len(Live) : Live[i].manifestation.k = "Manifestation"

\* In the middle of a step of a system that was reset and animated again.
C6_Witness ==
    /\ pc = 3 /\ WasReset /\ Len(drawn) >= 1
    /\ innerSolarSystem.masses = pre.masses

\* |a - b| is at most k units of roundoff (half a unit in the last of Prec
\* digits) of the smaller of |a| and |b|.
WithinRounding(a, b, k) ==
    /\ IsFinite(a) /\ IsFinite(b)
    /\ IF a.m = 0 \/ b.m = 0 THEN a.m = 0 /\ b.m = 0
       ELSE /\ Abs(a.e - b.e) <= 1
            /\ LET e0 == IF a.e < b.e THEN a.e ELSE b.e
                   ma == a.m * Pow10(a.e - e0)
                   mb == b.m * Pow10(b.e - e0)
                   lo == IF Abs(ma) < Abs(mb) THEN Abs(ma) ELSE Abs(mb)
               IN  2 * Pow10(Prec - 1) * Abs(ma - mb) <= k * lo

\* Two bodies at distinct finite places, no softening, accelerations just
\* computed.
TwoBodyCase ==
    /\ Len(Live) = 2 /\ AccelerationsFresh
    /\ innerSolarSystem.softeningConstant = Zero
    /\ \A i \in 1..2 : IsFinite(Live[i].x) /\ IsFinite(Live[i].y) /\ IsFinite(Live[i].z)
    /\ ~(Live[1].x = Live[2].x /\ Live[1].y = Live[2].y /\ Live[1].z = Live[2].z)

\* C7 as claimed: m1 * a1 = -(m2 * a2) in every component.
C7_ExactlyOpposite ==
    TwoBodyCase =>
        /\ NumEq(Mul(Live[1].m, Live[1].ax), Neg(Mul(Live[2].m, Live[2].ax)))
        /\ NumEq(Mul(Live[1].m, Live[1].ay), Neg(Mul(Live[2].m, Live[2].ay)))
        /\ NumEq(Mul(Live[1].m, Live[1].az), Neg(Mul(Live[2].m, Live[2].az)))

\* C7 as amended: m1 * a1 and -(m2 * a2) agree in every component to within
\* 9 units of roundoff.
C7_OppositeWithinRounding ==
    TwoBodyCase =>
        /\ WithinRounding(Mul(Live[1].m, Live[1].ax), Neg(Mul(Live[2].m, Live[2].ax)), 9)
        /\ WithinRounding(Mul(Live[1].m, Live[1].ay), Neg(Mul(Live[2].m, Live[2].ay)), 9)
        /\ WithinRounding(Mul(Live[1].m, Live[1].az), Neg(Mul(Live[2].m, Live[2].az)), 9)

\* Two bodies of different masses, apart in all three directions, attract
\* each other.
C7_Witness ==
    /\ TwoBodyCase
    /\ Live[1].m # Live[2].m
    /\ Live[1].ax # Zero /\ Live[1].ay # Zero /\ Live[1].az # Zero
    /\ Live[2].ax # Zero /\ Live[2].ay # Zero /\ Live[2].az # Zero

\* C8: the first step of the two-body scenario leaves body1 at x = 0, gives
\* body2 the acceleration (-39.5, 0, 0) and the x velocity ax * dt.
C8_Scenario ==
    (input = TwoBodyScenario /\ StepDone /\ drawn = << >>) =>
        /\ NumEq(Live[1].x, input.masses[1].x)
        /\ NumEq(Live[2].ax, Num(-395, -1))
        /\ NumEq(Live[2].ay, Zero)
        /\ NumEq(Live[2].az, Zero)
        /\ NumEq(Live[2].vx, Mul(Live[2].ax, dt))

\* The scenario's first step has ended: body2 moves at -0.316 along x.
C8_Witness ==
    /\ input = TwoBodyScenario /\ StepDone /\ drawn = << >>
    /\ Live[2].vx = Num(-316, -3)
    /\ Live[1].x = Zero

\* C9: the integrator always holds as many bodies as the input, and the k-th
\* has the k-th input's mass and name.
C9_BodiesFixed ==
    /\ Len(innerSolarSystem.masses) = Len(input.masses)
    /\ \A k \in 1..Len(innerSolarSystem.masses) :
         /\ k <= Len(input.masses)
         /\ Live[k].m = input.masses[k].m
         /\ Live[k].name = input.masses[k].name

\* The five bodies, animated, reset and animated again.
C9_Witness ==
    /\ Len(Live) = 5 /\ WasReset /\ Len(drawn) >= 2 /\ pc = 0
    /\ Live[5].name = "Mars" /\ Live[5].x # input.masses[5].x

Min(a, b) == IF a < b THEN a ELSE b

\* C10: every trail holds the last min(frames, trailLength) points drawn for
\* its body since construction or reset, oldest first.
C10_TrailBounded ==
    \A i \in 1..Len(Live) :
        LET trail == Live[i].manifestation.positions
            n     == Len(drawn)
        IN  /\ Len(trail) <= trailLength
            /\ Len(trail) = Min(n, trailLength)
            /\ \A k \in 1..Len(trail) : trail[k] = drawn[n - Len(trail) + k][i]

\* More points were drawn than a trail holds: the oldest ones are gone.
C10_Witness ==
    /\ Len(drawn) > trailLength
    /\ \E i \in 1..Len(Live) :
         /\ drawn[1][i] # drawn[2][i]
         /\ Len(Live[i].manifestation.positions) = trailLength
         /\ Live[i].manifestation.positions[1] = drawn[Len(drawn) - trailLength + 1][i]

=============================================================================
